---- MODULE Spec2Model ----
(***************************************************************************)
(* Verification model of the paginated aggregation engine                  *)
(* (src/src/common_functions.py, src/src/ex1.py).                          *)
(*                                                                         *)
(* Spec      : coroutines running api_call + safe_json against the shared  *)
(*             credential pool (key rotator, request executor).            *)
(* SpecPage  : one run of a paginated collector body.                      *)
(* SpecAgg   : one run of the body of get_analysis_by_single_account.      *)
(*                                                                         *)
(* Coroutine steps are interleaved statement by statement; the cooperative *)
(* asyncio schedule (switches only at awaits) is one of the interleavings. *)
(***************************************************************************)
EXTENDS Integers, Sequences, FiniteSets, TLC

\* ---------------------------------------------------------------- bounds
MaxKeys == 3
NumCallers == 2
MaxCalls == 4
MaxItemId == 2
MaxPageLen == 2
MaxBudget == 51

Callers == 1..NumCallers

\* ------------------------------------------------------- upstream values
\* Python None as a cursor / a missing JSON field.
NoneCur == "None"

\* A decoded JSON body.  parse = "mapping": json() yields a non-empty
\* mapping; "falsy": json() yields an empty value; "malformed": json() raises.
EmptyBody == [parse |-> "falsy", items |-> <<>>, end_cursor |-> NoneCur,
              id |-> "", is_private |-> "absent"]

PlainBodies ==
    { [EmptyBody EXCEPT !.parse = p] : p \in {"mapping", "falsy", "malformed"} }

StatusCodes == {200, 204, 404, 500}

\* What the network does with one GET: a transport exception, or a status
\* line plus body.
NetFailures == {"ClientConnectionError", "TimeoutError"}

Replies(bodies) ==
    { [net |-> "ok", status |-> s, body |-> b] : s \in StatusCodes, b \in bodies }
    \cup { [net |-> n, status |-> 0, body |-> EmptyBody] : n \in NetFailures }

\* Python None as a response, and a live response handle.
None == [none |-> TRUE, status |-> 0, body |-> EmptyBody]
Handle(reply) == [none |-> FALSE, status |-> reply.status, body |-> reply.body]

\* The empty mapping {} and a parsed body.
EmptyJson == [truthy |-> FALSE, data |-> EmptyBody]
Parsed(body) == [truthy |-> (body.parse = "mapping"), data |-> body]

NoReply == [net |-> "none", status |-> 0, body |-> EmptyBody]

\* An escaped exception: its type and the function that raised it.
NoExc == [name |-> "none", by |-> "none"]
Raised(name, by) == IF name = "none" THEN NoExc ELSE [name |-> name, by |-> by]

\* ------------------------------------------------------- pure operations
\* collections.deque.popleft: <<item, rest>>.
deque_pop(q) == <<q[Len(q)], SubSeq(q, 1, Len(q) - 1)>>
deque_popleft(q) == <<Head(q), Tail(q)>>

\* collections.deque.append.
deque_append_lost(q, k) == q
deque_append(q, k) == Append(q, k)

\* asyncio.Lock: acquire proceeds only when nobody holds the lock.
lock_ignored(l) == TRUE
lock_free(l) == l = 0

\* Leaving `async with INSTAGRAM_API_KEYS_LOCK:` (normally or by an exception):
\* the holder releases the lock.
lock_exit_kept(l, c) == l
lock_exit(l, c) == IF l = c THEN 0 ELSE l

\* response.raise_for_status(): raises ClientResponseError for status >= 400.
raise_for_status(status) == status >= 400

\* aiohttp.ClientError and its subclasses; asyncio.TimeoutError is not one.
IsClientError(e) == e \in {"ClientConnectionError", "ClientResponseError"}

\* The exception leaving the `async with session.get(...)` block, or "none".
session_get(reply) ==
    IF reply.net # "ok" THEN reply.net
    ELSE IF raise_for_status(reply.status) THEN "ClientResponseError"
    ELSE "none"

\* api_call after the credential is obtained: try / except aiohttp.ClientError.
api_call(reply) ==
    LET e == session_get(reply) IN
    IF e = "none" THEN [exc |-> "none", ret |-> Handle(reply)]
    ELSE IF IsClientError(e) THEN [exc |-> "none", ret |-> None]
    ELSE [exc |-> e, ret |-> None]

\* `await response.json()`: attribute lookup fails on None, parsing fails on
\* a malformed body.
response_json(response) ==
    IF response.none THEN "AttributeError"
    ELSE IF response.body.parse = "malformed" THEN "ContentTypeError"
    ELSE "none"

\* Evaluating `response.text` for the log call of the except clause.
response_text(response) == IF response.none THEN "AttributeError" ELSE "none"

\* safe_json: try json(); bare except logs response.text and returns {}.
safe_json(response) ==
    IF response_json(response) = "none"
    THEN [exc |-> "none", ret |-> Parsed(response.body)]
    ELSE IF response_text(response) # "none"
    THEN [exc |-> response_text(response), ret |-> EmptyJson]
    ELSE [exc |-> "none", ret |-> EmptyJson]

\* The startup pool: the credentials are named by their startup position.
StartupPool(n) == [i \in 1..n |-> i]

\* The i-th element (i >= 1) of the round-robin sequence over a pool.
RoundRobin(pool, i) == pool[((i - 1) % Len(pool)) + 1]

\* ----------------------------------------------------------------- state
VARIABLES
    INSTAGRAM_API_KEYS,       \* the deque of credentials
    INSTAGRAM_API_KEYS_LOCK,  \* 0 when free, else the coroutine holding it
    startup_keys,             \* the pool as it was at import time
    pc,                       \* per coroutine: position in api_call / safe_json
    key,                      \* per coroutine: local `key` / `current_key`
    ticket,                   \* per coroutine: ordinal of its popleft
    handed,                   \* credentials in the order they were popped
    in_flight,                \* per coroutine: credential in the GET headers, 0 if none
    reply,                    \* per coroutine: what the network did with its GET
    response,                 \* per coroutine: value returned by api_call
    json_data,                \* per coroutine: value returned by safe_json
    exc,                      \* per coroutine: exception that escaped, or "none"
    calls,                    \* api_call invocations started so far
    kind,                     \* collector under run, "none" outside SpecPage
    MAX_ANALYSIS,             \* the budget constant of src.config this collector reads
    end_cursor,               \* local `end_cursor` / `offset` of the collector loop
    counter,                  \* local `counter`
    full_list,                \* the caller's list (`result` / `full_list`)
    totals,                   \* local total_likes_count, total_comments_count, total_views_count
    ppc,                      \* collector position: "loop", "returned", "raised"
    pexc,                     \* exception that escaped the collector
    requests,                 \* page requests issued by this run
    absent_at,                \* ordinal of the request whose api_call returned None, else 0
    falsy_at,                 \* ordinal of the first processed page whose next cursor was falsy, else 0
    list_before,              \* full_list as it was before the latest page request
    all_continued,            \* every page so far was usable and carried a next cursor
    apc,                      \* position in get_analysis_by_single_account
    user_profile,             \* value of get_user_profile_info_by_username
    result,                   \* value of user_data_main
    main_response,            \* local `response` of the latest profile request
    main_json_data,           \* local `json_data` of the latest profile request
    aexc,                     \* exception that escaped get_analysis_by_single_account
    report,                   \* its return value: "none" (not returned), "empty" ({}) or "report"
    requested,                \* endpoints requested during the aggregation, in order
    tasks,                    \* collector tasks created by asyncio.create_task, in order
    \* the merge block of get_analysis_by_single_account (lines 557-586)
    mpc,                      \* "idle", "gathered" (gather has returned) or "merged"
    media_list,               \* the list both media collectors appended to
    posts_totals,             \* (posts_likes, posts_comments, posts_views)
    reels_totals,             \* (reels_likes, reels_comments, reels_views)
    report_data,              \* the 'data' part of the returned dict
    \* the @cached(cache) wrapper around the async functions
    cache,                    \* TTLCache: key -> [coro, expires]
    now,                      \* the cache's timer
    coros,                    \* coroutine objects created so far: [op, state]
    ccalls,                   \* calls of cached functions so far, with their outcome
    \* one call of post_comments and the unpacking of its value by its caller
    comments_pc,              \* "idle", "start", "returned", "unpacked" or "raised"
    comments_reply,           \* what the network answered to the postcomments request
    comments_return,          \* the value post_comments returned
    comments_exc              \* exception that escaped post_comments or its caller's unpacking

rotVars == <<INSTAGRAM_API_KEYS, INSTAGRAM_API_KEYS_LOCK, startup_keys, pc, key,
             ticket, handed, in_flight, reply, response, json_data, exc, calls>>

pageVars == <<kind, MAX_ANALYSIS, end_cursor, counter, full_list, totals, ppc, pexc,
              requests, absent_at, falsy_at, list_before, all_continued>>

aggVars == <<apc, user_profile, result, main_response, main_json_data, aexc, report,
             requested, tasks>>

mergeVars == <<mpc, media_list, posts_totals, reels_totals, report_data>>

cacheVars == <<cache, now, coros, ccalls>>

commentVars == <<comments_pc, comments_reply, comments_return, comments_exc>>

vars == <<rotVars, pageVars, aggVars, mergeVars, cacheVars, commentVars>>

\* No collector run / no aggregation in progress.
NoTotals == [likes |-> 0, comments |-> 0, views |-> 0]

EmptyProfile == [empty |-> TRUE, id |-> "", is_private |-> "absent"]

PageIdle ==
    /\ kind = "none"
    /\ MAX_ANALYSIS = 0
    /\ end_cursor = NoneCur
    /\ counter = 0
    /\ full_list = <<>>
    /\ totals = NoTotals
    /\ ppc = "idle"
    /\ pexc = NoExc
    /\ requests = 0
    /\ absent_at = 0
    /\ falsy_at = 0
    /\ list_before = <<>>
    /\ all_continued = TRUE

AggIdle ==
    /\ apc = "idle"
    /\ user_profile = EmptyProfile
    /\ result = EmptyProfile
    /\ main_response = None
    /\ main_json_data = EmptyJson
    /\ aexc = NoExc
    /\ report = "none"
    /\ requested = <<>>
    /\ tasks = <<>>

NoData == [posts |-> <<>>, posts_count |-> 0, likes_count |-> 0,
           comments_count |-> 0, views_count |-> 0]

MergeIdle ==
    /\ mpc = "idle"
    /\ media_list = <<>>
    /\ posts_totals = NoTotals
    /\ reels_totals = NoTotals
    /\ report_data = NoData

\* Values a call can return: a pair (items, count), or None.
Pair(items, count) == [is_pair |-> TRUE, items |-> items, count |-> count]
ReturnedNone == [is_pair |-> FALSE, items |-> <<>>, count |-> 0]

CommentsIdle ==
    /\ comments_pc = "idle"
    /\ comments_reply = NoReply
    /\ comments_return = ReturnedNone
    /\ comments_exc = NoExc

CacheIdle ==
    /\ cache = {}
    /\ now = 0
    /\ coros = <<>>
    /\ ccalls = <<>>

\* ------------------------------------------------------------ Spec: Init
Init ==
    /\ \E n \in 1..MaxKeys :
         /\ INSTAGRAM_API_KEYS = StartupPool(n)
         /\ startup_keys = StartupPool(n)
    /\ INSTAGRAM_API_KEYS_LOCK = 0
    /\ pc = [c \in Callers |-> "idle"]
    /\ key = [c \in Callers |-> 0]
    /\ ticket = [c \in Callers |-> 0]
    /\ handed = <<>>
    /\ in_flight = [c \in Callers |-> 0]
    /\ reply = [c \in Callers |-> NoReply]
    /\ response = [c \in Callers |-> None]
    /\ json_data = [c \in Callers |-> EmptyJson]
    /\ exc = [c \in Callers |-> NoExc]
    /\ calls = 0
    /\ PageIdle
    /\ AggIdle
    /\ MergeIdle
    /\ CacheIdle
    /\ CommentsIdle

\* --------------------------------------------------------- Spec: actions
\* A coroutine calls api_call(url): `current_key = await get_next_api_key()`.
call_api(c) ==
    /\ pc[c] = "idle"
    /\ calls < MaxCalls
    /\ calls' = calls + 1
    /\ pc' = [pc EXCEPT ![c] = "acquire"]
    /\ UNCHANGED <<pageVars, aggVars, mergeVars, cacheVars, commentVars>>
    /\ UNCHANGED <<INSTAGRAM_API_KEYS, INSTAGRAM_API_KEYS_LOCK, startup_keys, key,
                   ticket, handed, in_flight, reply, response, json_data, exc>>

\* `async with INSTAGRAM_API_KEYS_LOCK:` entry.
lock_acquire(c) ==
    /\ pc[c] = "acquire"
    /\ lock_free(INSTAGRAM_API_KEYS_LOCK)
    /\ INSTAGRAM_API_KEYS_LOCK' = c
    /\ pc' = [pc EXCEPT ![c] = "popleft"]
    /\ UNCHANGED <<pageVars, aggVars, mergeVars, cacheVars, commentVars>>
    /\ UNCHANGED <<INSTAGRAM_API_KEYS, startup_keys, key, ticket, handed, in_flight,
                   reply, response, json_data, exc, calls>>

\* `key = INSTAGRAM_API_KEYS.popleft()`; IndexError on an empty deque.
popleft(c) ==
    /\ pc[c] = "popleft"
    /\ IF Len(INSTAGRAM_API_KEYS) = 0
       THEN /\ exc' = [exc EXCEPT ![c] = Raised("IndexError", "get_next_api_key")]
            /\ pc' = [pc EXCEPT ![c] = "raised"]
            /\ INSTAGRAM_API_KEYS_LOCK' = lock_exit(INSTAGRAM_API_KEYS_LOCK, c)
            /\ UNCHANGED <<INSTAGRAM_API_KEYS, key, ticket, handed>>
       ELSE /\ key' = [key EXCEPT ![c] = deque_popleft(INSTAGRAM_API_KEYS)[1]]
            /\ INSTAGRAM_API_KEYS' = deque_popleft(INSTAGRAM_API_KEYS)[2]
            /\ handed' = Append(handed, deque_popleft(INSTAGRAM_API_KEYS)[1])
            /\ ticket' = [ticket EXCEPT ![c] = Len(handed) + 1]
            /\ pc' = [pc EXCEPT ![c] = "append"]
            /\ UNCHANGED <<INSTAGRAM_API_KEYS_LOCK, exc>>
    /\ UNCHANGED <<pageVars, aggVars, mergeVars, cacheVars, commentVars>>
    /\ UNCHANGED <<startup_keys, in_flight, reply, response, json_data, calls>>

\* `INSTAGRAM_API_KEYS.append(key)`.
append(c) ==
    /\ pc[c] = "append"
    /\ INSTAGRAM_API_KEYS' = deque_append(INSTAGRAM_API_KEYS, key[c])
    /\ pc' = [pc EXCEPT ![c] = "release"]
    /\ UNCHANGED <<pageVars, aggVars, mergeVars, cacheVars, commentVars>>
    /\ UNCHANGED <<INSTAGRAM_API_KEYS_LOCK, startup_keys, key, ticket, handed,
                   in_flight, reply, response, json_data, exc, calls>>

\* A Python dict display `{k1: v1, k2: v2, ...}`: the pairs are stored left to
\* right, and a later pair with an equal key replaces the earlier value.
dict_literal(pairs) ==
    [n \in { pairs[i][1] : i \in DOMAIN pairs } |->
        pairs[CHOOSE i \in DOMAIN pairs :
                 /\ pairs[i][1] = n
                 /\ \A j \in DOMAIN pairs : pairs[j][1] = n => j <= i][2]]

\* Header values: a credential of the pool, or the host string "api.com".
Credential(k) == [is_key |-> TRUE, v |-> k]
HostValue == [is_key |-> FALSE, v |-> "api.com"]

\* `headers = {"...": current_key, "...": "api.com"}`: both entries are written
\* with the same key "...".
request_headers(current_key) ==
    dict_literal(<< <<"...", Credential(current_key)>>, <<"...", HostValue>> >>)

\* The credential a headers dict carries, 0 when no value of it is a credential.
carried(headers) ==
    IF \E n \in DOMAIN headers : headers[n].is_key
    THEN headers[CHOOSE n \in DOMAIN headers : headers[n].is_key].v
    ELSE 0

\* Leaving the `async with` block, `return key`, building the headers and
\* issuing `session.get(url, headers=headers)`.
lock_release(c) ==
    /\ pc[c] = "release"
    /\ INSTAGRAM_API_KEYS_LOCK' = lock_exit(INSTAGRAM_API_KEYS_LOCK, c)
    /\ in_flight' = [in_flight EXCEPT ![c] = carried(request_headers(key[c]))]
    /\ pc' = [pc EXCEPT ![c] = "get"]
    /\ UNCHANGED <<pageVars, aggVars, mergeVars, cacheVars, commentVars>>
    /\ UNCHANGED <<INSTAGRAM_API_KEYS, startup_keys, key, ticket, handed, reply,
                   response, json_data, exc, calls>>

\* The GET completes: raise_for_status, `return response`, or the except clause.
get_done(c) ==
    /\ pc[c] = "get"
    /\ \E r \in Replies(PlainBodies) :
         /\ reply' = [reply EXCEPT ![c] = r]
         /\ response' = [response EXCEPT ![c] = api_call(r).ret]
         /\ exc' = [exc EXCEPT ![c] = Raised(api_call(r).exc, "api_call")]
         /\ pc' = [pc EXCEPT ![c] =
                      IF api_call(r).exc = "none" THEN "json" ELSE "raised"]
    /\ in_flight' = [in_flight EXCEPT ![c] = 0]
    /\ UNCHANGED <<pageVars, aggVars, mergeVars, cacheVars, commentVars>>
    /\ UNCHANGED <<INSTAGRAM_API_KEYS, INSTAGRAM_API_KEYS_LOCK, startup_keys, key,
                   ticket, handed, json_data, calls>>

\* The caller hands the result to safe_json: `json_data = await safe_json(response)`.
call_safe_json(c) ==
    /\ pc[c] = "json"
    /\ json_data' = [json_data EXCEPT ![c] = safe_json(response[c]).ret]
    /\ exc' = [exc EXCEPT ![c] = Raised(safe_json(response[c]).exc, "safe_json")]
    /\ pc' = [pc EXCEPT ![c] =
                 IF safe_json(response[c]).exc = "none" THEN "decoded" ELSE "raised"]
    /\ UNCHANGED <<pageVars, aggVars, mergeVars, cacheVars, commentVars>>
    /\ UNCHANGED <<INSTAGRAM_API_KEYS, INSTAGRAM_API_KEYS_LOCK, startup_keys, key,
                   ticket, handed, in_flight, reply, response, calls>>

\* The caller is done with this request (its locals go out of scope) and may
\* issue the next one.
next_request(c) ==
    /\ pc[c] = "decoded"
    /\ pc' = [pc EXCEPT ![c] = "idle"]
    /\ key' = [key EXCEPT ![c] = 0]
    /\ ticket' = [ticket EXCEPT ![c] = 0]
    /\ reply' = [reply EXCEPT ![c] = NoReply]
    /\ response' = [response EXCEPT ![c] = None]
    /\ json_data' = [json_data EXCEPT ![c] = EmptyJson]
    /\ UNCHANGED <<pageVars, aggVars, mergeVars, cacheVars, commentVars>>
    /\ UNCHANGED <<INSTAGRAM_API_KEYS, INSTAGRAM_API_KEYS_LOCK, startup_keys, handed,
                   in_flight, exc, calls>>

Next ==
    \E c \in Callers :
        \/ call_api(c)
        \/ lock_acquire(c)
        \/ popleft(c)
        \/ append(c)
        \/ lock_release(c)
        \/ get_done(c)
        \/ call_safe_json(c)
        \/ next_request(c)

Spec == Init /\ [][Next]_vars

\* ------------------------------------------------------- claims on Spec
\* Statements of get_next_api_key between popleft and the end of the block.
CriticalSection == {"popleft", "append", "release"}
\* Positions at which `key` holds the credential of the current call.
HoldsKey == {"append", "release", "get"}

\* C1 - Rotation fairness: the i-th credential handed out is the i-th element
\* of the round-robin sequence over the startup pool, so N consecutive calls
\* return every credential once in pool order and call N+1 repeats call 1.
C1_RotationFairness ==
    \A i \in 1..Len(handed) : handed[i] = RoundRobin(startup_keys, i)

C1_Witness ==
    /\ Len(startup_keys) >= 2
    /\ Len(handed) = Len(startup_keys) + 1
    /\ handed[Len(handed)] = handed[1]
    /\ \A k \in 1..Len(startup_keys) : handed[k] = startup_keys[k]

\* C2 - Whenever no coroutine is inside the critical section, the pool has its
\* startup size and holds every startup credential exactly once.
C2_PoolPreserved ==
    INSTAGRAM_API_KEYS_LOCK = 0 =>
        /\ Len(INSTAGRAM_API_KEYS) = Len(startup_keys)
        /\ \A i \in 1..Len(startup_keys) :
               Cardinality({j \in 1..Len(INSTAGRAM_API_KEYS) :
                               INSTAGRAM_API_KEYS[j] = startup_keys[i]}) = 1

C2_Witness ==
    /\ INSTAGRAM_API_KEYS_LOCK = 0
    /\ \A c \in Callers : pc[c] = "get"
    /\ Len(handed) >= 2
    /\ INSTAGRAM_API_KEYS # startup_keys

\* C3 - The popleft/append pairs of two coroutines never interleave, and every
\* coroutine holds the round-robin element of its own turn, so two callers
\* never hold the same rotation state.
C3_NoInterleaving ==
    /\ \A c, d \in Callers :
          (c # d /\ pc[c] \in CriticalSection) => pc[d] \notin CriticalSection
    /\ \A c \in Callers :
          pc[c] \in HoldsKey => key[c] = RoundRobin(startup_keys, ticket[c])
    /\ \A c, d \in Callers :
          (c # d /\ pc[c] \in HoldsKey /\ pc[d] \in HoldsKey) => ticket[c] # ticket[d]

C3_Witness ==
    /\ \A c \in Callers : pc[c] = "get"
    /\ \E c \in Callers : pc[c] = "get" /\ ticket[c] > Len(startup_keys)

\* C24 - The credential-pool lock is held only across the popleft/append pair:
\* a coroutine that holds INSTAGRAM_API_KEYS_LOCK is inside the `async with`
\* block, and a coroutine whose GET is in flight, or that is at any other
\* position outside the block, does not hold it.
C24_LockOnlyAcrossRotation ==
    \A c \in Callers :
        /\ INSTAGRAM_API_KEYS_LOCK = c => pc[c] \in CriticalSection
        /\ pc[c] \notin CriticalSection => INSTAGRAM_API_KEYS_LOCK # c
        /\ pc[c] = "get" => INSTAGRAM_API_KEYS_LOCK # c

C24_Witness ==
    \E c, d \in Callers :
        /\ c # d
        /\ pc[c] = "get"
        /\ ticket[c] > 0
        /\ INSTAGRAM_API_KEYS_LOCK = d
        /\ pc[d] = "append"

\* C4 - (as claimed) on every transport-level failure api_call returns None
\* and raises nothing.
C4_TransportFailureGivesNone ==
    \A c \in Callers :
        (reply[c].net # "none" /\ session_get(reply[c]) # "none") =>
            /\ exc[c].by # "api_call"
            /\ response[c] = None

\* C17 - (as claimed) the GET of every api_call carries in its headers the
\* credential that the call's own rotation step returned, and when the GET
\* succeeds api_call returns the response handle of that GET.
C17_GetCarriesCredential ==
    \A c \in Callers :
        /\ pc[c] = "get" =>
              /\ key[c] = RoundRobin(startup_keys, ticket[c])
              /\ in_flight[c] = key[c]
        /\ (pc[c] \in {"json", "decoded"} /\ session_get(reply[c]) = "none") =>
              response[c] = Handle(reply[c])

\* C5 - (as claimed) safe_json never raises: it returns the parsed body when
\* json() succeeds and {} when it fails, for a live response and for None.
C5_SafeJsonNeverRaises ==
    \A c \in Callers :
        /\ exc[c].by # "safe_json"
        /\ pc[c] = "decoded" =>
              json_data[c] = IF response_json(response[c]) = "none"
                             THEN Parsed(response[c].body) ELSE EmptyJson


\* -------------------------------------------------- paginated collectors
PageStep == 50

ItemIds == 1..MaxItemId

\* The raw items of one upstream page: identity keys in upstream order.
PageItems == UNION { [1..n -> ItemIds] : n \in 0..MaxPageLen }

\* Values upstream can put in data.end_cursor: missing, a token, "" or 0.
UpstreamCursors == {NoneCur, "tok", "", "0"}

\* Python truth value of a cursor: None (also a missing 'end_cursor'), the
\* empty string and 0 are falsy.
Falsy(cursor) == cursor \in {NoneCur, "", "0"}

PageBodies ==
    { [EmptyBody EXCEPT !.parse = "mapping", !.items = it, !.end_cursor = cu] :
          it \in PageItems, cu \in UpstreamCursors }
    \cup { [EmptyBody EXCEPT !.parse = p] : p \in {"falsy", "malformed"} }

\* Replies to a page request: every usable page, and the unusable ones.
PageReplies ==
    { [net |-> "ok", status |-> 200, body |-> b] : b \in PageBodies }
    \cup { [net |-> "ok", status |-> st,
            body |-> [EmptyBody EXCEPT !.parse = "mapping", !.items = <<1>>,
                                       !.end_cursor = "tok"]] :
              st \in StatusCodes \ {200} }
    \cup Replies(PlainBodies)

Kinds == {"likes", "followers", "following", "posts", "reels"}

\* Budget values tried for MAX_ANALYSIS_*: multiples of the page step and
\* their successors.
Budgets == { b \in 1..MaxBudget : b % PageStep \in {0, 1} }

\* Cap on the page requests of one run; a run within its budget stays below it.
MaxRequests == (MaxBudget \div PageStep) + 3

\* Default arguments of the collectors.
initial_cursor(k) == IF k \in {"followers", "following"} THEN "0" ELSE "%7Bend_cursor%7D"
initial_counter_zero(k) == 0
initial_counter(k) == IF k \in {"posts", "reels"} THEN 0 ELSE 1

\* `(counter * 50) < MAX_ANALYSIS_...`: the collector may ask for another page.
budget_ignored(cnt, max) == TRUE
budget_allows(cnt, max) == cnt * PageStep < max

\* get_next_api_key as one step of a sequential caller.
rotate(q) == deque_append(deque_popleft(q)[2], deque_popleft(q)[1])

\* List elements: a dict built for an item, or the coroutine object that
\* calling the async _process_post without await yields.
Dict(k, e) == [key |-> k, awaited |-> TRUE, likes_count |-> e.likes,
               comments_count |-> e.comments, view_count |-> e.views]
Coroutine(k) == [key |-> k, awaited |-> FALSE, likes_count |-> 0,
                 comments_count |-> 0, view_count |-> 0]

\* What post_likes, post_comments and the media node give for the reel with
\* shortcode k when they return: likes_count, comments_count, view_count.
\* Upstream reports the same counts for the same shortcode during one run.
reel_counts(k) == [likes |-> 2 * (k - 1), comments |-> k - 1, views |-> 3 * (k - 1)]

\* Exceptions that can escape _process_reels: api_call on a timeout, safe_json
\* on None (post_likes), unpacking the None that post_comments returns.
EnrichFailures == {"TimeoutError", "AttributeError", "TypeError"}

Plain == [likes |-> 0, comments |-> 0, views |-> 0]

\* api_call followed by safe_json, as every process_batch* starts.
fetch(r) ==
    LET a == api_call(r) IN
    IF a.exc # "none"
    THEN [exc |-> Raised(a.exc, "api_call"), usable |-> FALSE, data |-> EmptyBody,
          absent |-> FALSE]
    ELSE LET j == safe_json(a.ret) IN
         IF j.exc # "none"
         THEN [exc |-> Raised(j.exc, "safe_json"), usable |-> FALSE,
               data |-> EmptyBody, absent |-> a.ret.none]
         ELSE [exc |-> NoExc, usable |-> j.ret.truthy /\ a.ret.status = 200,
               data |-> j.ret.data, absent |-> a.ret.none]

\* Body of `for like in likes` / `for user in users`: every item is appended.
append_all(list, tot, items) ==
    [list |-> list \o [i \in 1..Len(items) |-> Dict(items[i], Plain)],
     totals |-> tot, exc |-> NoExc]

\* Body of process_batch_posts for one usable page: the first edge whose
\* shortcode is not in existing_shortcodes is appended as a coroutine object
\* and `processed_post.get` raises AttributeError.
RECURSIVE posts_walk(_, _, _, _)
posts_walk(list, tot, items, existing) ==
    IF items = <<>> THEN [list |-> list, totals |-> tot, exc |-> NoExc]
    ELSE IF Head(items) \in existing
    THEN posts_walk(list, tot, Tail(items), existing)
    ELSE [list |-> Append(list, Coroutine(Head(items))), totals |-> tot,
          exc |-> Raised("AttributeError", "process_batch_posts")]

posts_items(list, tot, items) ==
    IF \E i \in 1..Len(list) : ~list[i].awaited
    THEN [list |-> list, totals |-> tot,
          exc |-> Raised("AttributeError", "process_batch_posts")]
    ELSE posts_walk(list, tot, items, { list[i].key : i \in 1..Len(list) })

\* `total_likes_count += processed_post.get('likes_count', 0)` and the two
\* lines after it.
add_totals_no_views(tot, post) ==
    [likes |-> tot.likes + post.likes_count,
     comments |-> tot.comments + post.comments_count,
     views |-> tot.views]
add_totals(tot, post) ==
    [likes |-> tot.likes + post.likes_count,
     comments |-> tot.comments + post.comments_count,
     views |-> tot.views + post.view_count]

\* Body of process_batch_reels for one usable page: every media is enriched
\* by _process_reels, appended, and added to the totals; _process_reels raises
\* e at the item of ordinal fail_at (counted from `at`), never when fail_at = 0.
RECURSIVE reels_items(_, _, _, _, _, _)
reels_items(list, tot, items, at, fail_at, e) ==
    IF items = <<>> THEN [list |-> list, totals |-> tot, exc |-> NoExc]
    ELSE IF at = fail_at
    THEN [list |-> list, totals |-> tot, exc |-> Raised(e, "_process_reels")]
    ELSE reels_items(Append(list, Dict(Head(items), reel_counts(Head(items)))),
                     add_totals(tot, Dict(Head(items), reel_counts(Head(items)))),
                     Tail(items), at + 1, fail_at, e)

\* One iteration of a collector loop: the process_batch* call on reply r,
\* where `page` is the effect of the usable-page branch, then `counter += 1`.
Batch(r, page) ==
    LET f == fetch(r) IN
    /\ ppc = "loop"
    /\ end_cursor # NoneCur
    /\ requests < MaxRequests
    /\ requests' = requests + 1
    /\ list_before' = full_list
    /\ INSTAGRAM_API_KEYS' = rotate(INSTAGRAM_API_KEYS)
    /\ absent_at' = IF f.absent /\ absent_at = 0 THEN requests + 1 ELSE absent_at
    /\ falsy_at' = IF /\ falsy_at = 0
                      /\ f.exc = NoExc /\ f.usable /\ page.exc = NoExc
                      /\ Falsy(f.data.end_cursor)
                   THEN requests + 1 ELSE falsy_at
    /\ all_continued' = (all_continued /\ f.usable /\ page.exc = NoExc
                         /\ f.data.end_cursor # NoneCur)
    /\ IF f.exc # NoExc
       THEN /\ pexc' = f.exc
            /\ ppc' = "raised"
            /\ UNCHANGED <<full_list, totals, end_cursor, counter>>
       ELSE IF ~f.usable
       THEN /\ end_cursor' = NoneCur
            /\ counter' = counter + 1
            /\ UNCHANGED <<full_list, totals, ppc, pexc>>
       ELSE IF page.exc # NoExc
       THEN /\ full_list' = page.list
            /\ pexc' = page.exc
            /\ ppc' = "raised"
            /\ UNCHANGED <<totals, end_cursor, counter>>
       ELSE /\ full_list' = page.list
            /\ totals' = page.totals
            /\ end_cursor' = IF budget_allows(counter, MAX_ANALYSIS)
                             THEN f.data.end_cursor ELSE NoneCur
            /\ counter' = counter + 1
            /\ UNCHANGED <<ppc, pexc>>
    /\ UNCHANGED <<INSTAGRAM_API_KEYS_LOCK, startup_keys, pc, key, ticket, handed,
                   in_flight, reply, response, json_data, exc, calls>>
    /\ UNCHANGED <<kind, MAX_ANALYSIS>>
    /\ UNCHANGED <<aggVars, mergeVars, cacheVars, commentVars>>

RotIdle(n) ==
    /\ INSTAGRAM_API_KEYS = StartupPool(n)
    /\ startup_keys = StartupPool(n)
    /\ INSTAGRAM_API_KEYS_LOCK = 0
    /\ pc = [c \in Callers |-> "idle"]
    /\ key = [c \in Callers |-> 0]
    /\ ticket = [c \in Callers |-> 0]
    /\ handed = <<>>
    /\ in_flight = [c \in Callers |-> 0]
    /\ reply = [c \in Callers |-> NoReply]
    /\ response = [c \in Callers |-> None]
    /\ json_data = [c \in Callers |-> EmptyJson]
    /\ exc = [c \in Callers |-> NoExc]
    /\ calls = 0

\* A collector body is entered with its default arguments and an empty list.
InitPage ==
    /\ RotIdle(2)
    /\ AggIdle
    /\ MergeIdle
    /\ CacheIdle
    /\ CommentsIdle
    /\ kind \in Kinds
    /\ MAX_ANALYSIS \in Budgets
    /\ end_cursor = initial_cursor(kind)
    /\ counter = initial_counter(kind)
    /\ full_list = <<>>
    /\ totals = NoTotals
    /\ ppc = "loop"
    /\ pexc = NoExc
    /\ requests = 0
    /\ absent_at = 0
    /\ falsy_at = 0
    /\ list_before = <<>>
    /\ all_continued = TRUE

\* post_likes: `end_cursor = await process_batch(...)`; `counter += 1`.
process_batch ==
    /\ kind = "likes"
    /\ \E r \in PageReplies :
          Batch(r, append_all(full_list, totals, r.body.items))

\* user_data_followers / user_data_following: process_batch_follow; counter += 1.
process_batch_follow ==
    /\ kind \in {"followers", "following"}
    /\ \E r \in PageReplies :
          Batch(r, append_all(full_list, totals, r.body.items))

\* user_data_posts: process_batch_posts; counter += 1.
process_batch_posts ==
    /\ kind = "posts"
    /\ \E r \in PageReplies :
          Batch(r, posts_items(full_list, totals, r.body.items))

\* user_data_reels: process_batch_reels; counter += 1.
process_batch_reels ==
    /\ kind = "reels"
    /\ \E r \in PageReplies :
       \E fail_at \in 0..Len(r.body.items), e \in EnrichFailures :
          Batch(r, reels_items(full_list, totals, r.body.items, 1, fail_at, e))

\* The loop condition `end_cursor is not None` fails: the collector returns.
collector_return ==
    /\ ppc = "loop"
    /\ end_cursor = NoneCur
    /\ ppc' = "returned"
    /\ UNCHANGED <<rotVars, aggVars, mergeVars, cacheVars, commentVars>>
    /\ UNCHANGED <<kind, MAX_ANALYSIS, end_cursor, counter, full_list, totals, pexc,
                   requests, absent_at, falsy_at, list_before, all_continued>>

NextPage ==
    \/ process_batch
    \/ process_batch_follow
    \/ process_batch_posts
    \/ process_batch_reels
    \/ collector_return

SpecPage == InitPage /\ [][NextPage]_vars

\* The event loop resumes a runnable coroutine, and every request is answered
\* or times out.
FairSpecPage == SpecPage /\ WF_vars(NextPage)


\* ------------------------------------------------ claims on SpecPage
\* C6 - (as claimed) fail-soft pagination: when api_call returns None on page
\* k the collector raises nothing, stops, and its list is what pages 1..k-1
\* accumulated.
C6_FailSoft ==
    absent_at > 0 =>
        /\ ppc \in {"loop", "returned"}
        /\ pexc = NoExc
        /\ requests = absent_at
        /\ end_cursor = NoneCur
        /\ full_list = list_before

\* C10 - Pagination termination: every collector run ends (returns or raises)
\* after finitely many requests, and a run whose every page was usable and
\* carried a next cursor returns exactly when the counter of its last page no
\* longer fits the budget.
C10_Termination ==
    /\ <>(ppc \in {"returned", "raised"})
    /\ [](requests <= (MAX_ANALYSIS \div PageStep) + 2)
    /\ []((ppc = "returned" /\ all_continued) =>
             (counter - 1) * PageStep >= MAX_ANALYSIS)

C10_Witness ==
    /\ ppc = "returned"
    /\ all_continued
    /\ requests >= 2
    /\ requests < MaxRequests

\* C23 - (as claimed) after a processed page whose next cursor is falsy (None,
\* absent, empty string or 0) the run issues no further request.
C23_FalsyCursorStops ==
    falsy_at > 0 => requests = falsy_at

\* ceil(B / 50) for a budget B.
CeilPages(B) == (B + PageStep - 1) \div PageStep

RequestBound(k, B) ==
    IF k \in {"posts", "reels"} THEN CeilPages(B) + 1
    ELSE IF CeilPages(B) > 1 THEN CeilPages(B) ELSE 1

\* C26 - Request bound per run, for a budget B > 0 and any upstream behaviour:
\* the likes, followers and following collectors issue at most
\* max(1, ceil(B/50)) page requests, the posts and reels collectors at most
\* ceil(B/50) + 1.
C26_RequestBound ==
    /\ MAX_ANALYSIS > 0
    /\ requests <= RequestBound(kind, MAX_ANALYSIS)

C26_Witness ==
    /\ ppc = "returned"
    /\ kind = "reels"
    /\ MAX_ANALYSIS = PageStep + 1
    /\ requests = CeilPages(MAX_ANALYSIS) + 1
    /\ all_continued

\* Keys of the entries of a list, and whether two entries share one.
KeysOf(list) == { list[i].key : i \in 1..Len(list) }
HasDuplicate(list) ==
    \E i, j \in 1..Len(list) : i < j /\ list[i].key = list[j].key

\* C11 - (as claimed) the list a collector returns never holds more items than
\* its budget constant, whatever upstream puts on a page.
C11_ItemsWithinBudget ==
    ppc = "returned" => Len(full_list) <= MAX_ANALYSIS

\* C12 - (as claimed) with a budget of 50 the posts collector issues exactly
\* one page request, whatever cursor upstream returns on that page.
C12_OnePageForBudget50 ==
    (kind = "posts" /\ MAX_ANALYSIS = PageStep) =>
        /\ requests <= 1
        /\ ppc \in {"returned", "raised"} => requests = 1

\* C13 - (as claimed) no two entries of the media list filled by the posts or
\* the reels collector share a shortcode, at any point of the run.
C13_MediaDedup ==
    kind \in {"posts", "reels"} => ~HasDuplicate(full_list)

\* C14 - (as claimed) a user who is already in the followers / following list
\* from an earlier page is not appended again by a later page.
C14_FollowDedup ==
    kind \in {"followers", "following"} =>
        \A i \in 1..Len(full_list) :
            i > Len(list_before) => full_list[i].key \notin KeysOf(list_before)

\* Sum of a count field over the dicts of a list.
RECURSIVE SumTotals(_)
SumTotals(list) ==
    IF list = <<>> THEN NoTotals
    ELSE LET t == SumTotals(Tail(list)) IN
         [likes |-> t.likes + Head(list).likes_count,
          comments |-> t.comments + Head(list).comments_count,
          views |-> t.views + Head(list).view_count]

\* C20 - Running totals of the posts and reels collectors: no total decreases
\* from one page to the next, and at every page boundary and at return each
\* total is the sum of its field over the items the run has appended.
C20_RunningTotals ==
    /\ []((kind \in {"posts", "reels"} /\ ppc \in {"loop", "returned"}) =>
             totals = SumTotals(full_list))
    /\ [][/\ totals'.likes >= totals.likes
          /\ totals'.comments >= totals.comments
          /\ totals'.views >= totals.views]_vars

C20_Witness ==
    /\ kind = "reels"
    /\ ppc = "returned"
    /\ requests >= 2
    /\ Len(full_list) > Len(list_before)
    /\ Len(list_before) >= 1
    /\ totals.views > 0
    /\ totals = SumTotals(full_list)

\* ----------------------------------------------------------- aggregator
\* Bodies of the userinfo / usercontact endpoints: data.id (data.user.pk) and
\* data.is_private, each possibly missing.
ProfileBodies ==
    { [EmptyBody EXCEPT !.parse = "mapping", !.id = i, !.is_private = p] :
          i \in {"", "123"}, p \in {"absent", "true", "false"} }
    \cup { [EmptyBody EXCEPT !.parse = p] : p \in {"falsy", "malformed"} }

LookupEndpoints == {"userinfo", "usercontact"}
StreamEndpoints == {"userreels", "userposts", "userfollowers", "userfollowing",
                    "usertaggedposts", "userhighlights", "postlikes", "postcomments"}

\* `response.status` on the value api_call returned.
response_status(resp) == IF resp.none THEN "AttributeError" ELSE "none"

\* dict.get('is_private', True) on a decoded body.
get_is_private(data) == IF data.is_private = "absent" THEN "true" ELSE data.is_private

\* Lines 71-88 of get_user_profile_info_by_username and 48-66 of
\* user_data_main after their api_call: decode, test the status, build the dict.
profile_from(resp) ==
    LET j == safe_json(resp) IN
    IF j.exc # "none"
    THEN [exc |-> Raised(j.exc, "safe_json"), json |-> EmptyJson, ret |-> EmptyProfile]
    ELSE IF response_status(resp) # "none"
    THEN [exc |-> Raised(response_status(resp), "profile"), json |-> j.ret,
          ret |-> EmptyProfile]
    ELSE IF resp.status # 200 \/ ~j.ret.truthy
    THEN [exc |-> NoExc, json |-> j.ret, ret |-> EmptyProfile]
    ELSE [exc |-> NoExc, json |-> j.ret,
          ret |-> [empty |-> FALSE, id |-> j.ret.data.id,
                   is_private |-> get_is_private(j.ret.data)]]

\* get_user_profile_info_by_username: `if not user_id: return {}`.
get_user_profile_info_by_username(resp) ==
    LET p == profile_from(resp) IN
    IF p.exc = NoExc /\ ~p.ret.empty /\ p.ret.id = ""
    THEN [p EXCEPT !.ret = EmptyProfile] ELSE p

\* `result.get('is_private', True)` in get_analysis_by_single_account.
is_private_inverted(res) == ~(res.empty \/ res.is_private = "true")
is_private(res) == res.empty \/ res.is_private = "true"

\* cachetools.cached: the key is hashed from the arguments, and hashing a
\* list raises TypeError.
cached_key(arg_types) ==
    IF \E i \in 1..Len(arg_types) : arg_types[i] = "list" THEN "TypeError" ELSE "none"

InitAgg ==
    /\ \E n \in 1..MaxKeys : RotIdle(n)
    /\ PageIdle
    /\ MergeIdle
    /\ CacheIdle
    /\ CommentsIdle
    /\ apc = "start"
    /\ user_profile = EmptyProfile
    /\ result = EmptyProfile
    /\ main_response = None
    /\ main_json_data = EmptyJson
    /\ aexc = NoExc
    /\ report = "none"
    /\ requested = <<>>
    /\ tasks = <<>>

AggFrame ==
    /\ UNCHANGED <<INSTAGRAM_API_KEYS_LOCK, startup_keys, pc, key, ticket, handed,
                   in_flight, reply, response, json_data, exc, calls>>
    /\ UNCHANGED <<pageVars, mergeVars, cacheVars, commentVars>>

\* user_data_main, first half: get_user_profile_info_by_username(username) and
\* `if not user_profile.get('user_id'): return {}`.
lookup_profile ==
    /\ apc = "start"
    /\ requested' = Append(requested, "userinfo")
    /\ INSTAGRAM_API_KEYS' = rotate(INSTAGRAM_API_KEYS)
    /\ \E r \in Replies(ProfileBodies) :
         LET a == api_call(r)
             p == get_user_profile_info_by_username(a.ret) IN
         IF a.exc # "none"
         THEN /\ aexc' = Raised(a.exc, "api_call")
              /\ apc' = "raised"
              /\ UNCHANGED <<user_profile, result, main_response, main_json_data>>
         ELSE /\ main_response' = a.ret
              /\ main_json_data' = p.json
              /\ user_profile' = p.ret
              /\ aexc' = p.exc
              /\ apc' = IF p.exc # NoExc THEN "raised"
                        ELSE IF p.ret.empty THEN "privacy" ELSE "contact"
              /\ UNCHANGED result
    /\ UNCHANGED report
    /\ UNCHANGED tasks
    /\ AggFrame

\* user_data_main, second half: the usercontact request and the result dict.
contact_profile ==
    /\ apc = "contact"
    /\ requested' = Append(requested, "usercontact")
    /\ INSTAGRAM_API_KEYS' = rotate(INSTAGRAM_API_KEYS)
    /\ \E r \in Replies(ProfileBodies) :
         LET a == api_call(r)
             p == profile_from(a.ret) IN
         IF a.exc # "none"
         THEN /\ aexc' = Raised(a.exc, "api_call")
              /\ apc' = "raised"
              /\ UNCHANGED <<result, main_response, main_json_data>>
         ELSE /\ main_response' = a.ret
              /\ main_json_data' = p.json
              /\ result' = p.ret
              /\ aexc' = p.exc
              /\ apc' = IF p.exc # NoExc THEN "raised" ELSE "privacy"
    /\ UNCHANGED <<user_profile, report>>
    /\ UNCHANGED tasks
    /\ AggFrame

\* `if result.get('is_private', True): raise ProfileIsPrivateException(...)`.
privacy_check ==
    /\ apc = "privacy"
    /\ IF is_private(result)
       THEN /\ aexc' = Raised("ProfileIsPrivateException", "get_analysis_by_single_account")
            /\ apc' = "raised"
       ELSE /\ apc' = "uid"
            /\ UNCHANGED aexc
    /\ UNCHANGED <<INSTAGRAM_API_KEYS, user_profile, result, main_response,
                   main_json_data, report, requested>>
    /\ UNCHANGED tasks
    /\ AggFrame

\* `uid = result.get('id', '')`; `if not uid: return {}`.
uid_check ==
    /\ apc = "uid"
    /\ IF result.id = ""
       THEN /\ report' = "empty"
            /\ apc' = "returned"
       ELSE /\ apc' = "collect"
            /\ UNCHANGED report
    /\ UNCHANGED <<INSTAGRAM_API_KEYS, user_profile, result, main_response,
                   main_json_data, aexc, requested>>
    /\ UNCHANGED tasks
    /\ AggFrame

\* `asyncio.create_task(user_data_reels(uid, media_list))`: the argument is
\* evaluated first, through the @cached wrapper of user_data_reels; the
\* wrapper raises while hashing its key, so create_task is never entered and
\* no task is created.
create_reels_task ==
    /\ apc = "collect"
    /\ cached_key(<<"int", "list">>) # "none"
    /\ aexc' = Raised(cached_key(<<"int", "list">>), "cached")
    /\ apc' = "raised"
    /\ tasks' = tasks
    /\ UNCHANGED <<INSTAGRAM_API_KEYS, user_profile, result, main_response,
                   main_json_data, report, requested>>
    /\ AggFrame

NextAgg ==
    \/ lookup_profile
    \/ contact_profile
    \/ privacy_check
    \/ uid_check
    \/ create_reels_task

SpecAgg == InitAgg /\ [][NextAgg]_vars

\* -------------------------------------------------- claims on SpecAgg
Finished == apc \in {"returned", "raised"}

\* C7 - (as claimed) get_analysis_by_single_account returns a report or raises
\* ProfileIsPrivateException; no other exception reaches the caller.
C7_OnlyPrivateEscapes ==
    apc = "raised" => aexc.name = "ProfileIsPrivateException"

\* C8 - (as claimed) when the profile lookup yields an empty result the
\* aggregation returns an empty report and raises nothing.
C8_EmptyLookupGivesEmptyReport ==
    (Finished /\ user_profile.empty /\ aexc.by \notin {"api_call", "safe_json"}) =>
        /\ apc = "returned"
        /\ report = "empty"
        /\ aexc = NoExc

\* The six collector tasks of lines 542-549, in creation order.
CollectorTasks == <<"user_data_reels", "user_data_posts", "user_data_followers",
                    "user_data_following", "user_tagget_count", "user_highlights_count">>

\* user_data_main returned a public profile with a resolvable id.
PublicWithId == ~result.empty /\ result.is_private = "false" /\ result.id # ""

\* C16 - (as claimed) for a public subject with a resolvable id the aggregation
\* requests the followers endpoint and returns a report (holding the followers
\* upstream sent), raising nothing.
C16_PublicSubjectGetsReport ==
    (Finished /\ PublicWithId) =>
        /\ apc = "returned"
        /\ report = "report"
        /\ aexc = NoExc
        /\ \E i \in 1..Len(requested) : requested[i] = "userfollowers"

\* C18 - (as claimed) an aggregation that got past the uid check starts all six
\* collector tasks and ends by merging: it returns a report even when a
\* collector failed.
C18_JoinAll ==
    (Finished /\ PublicWithId) =>
        /\ tasks = CollectorTasks
        /\ apc = "returned"

\* C9 - once user_data_main has returned a result marked private, the
\* aggregation raises ProfileIsPrivateException, and an aggregation that raised
\* it has requested nothing but the two profile endpoints.
C9_PrivateRaisesBeforeStreams ==
    /\ (~result.empty /\ result.is_private = "true"
           /\ apc \notin {"start", "contact", "privacy"}) =>
          (apc = "raised" /\ aexc.name = "ProfileIsPrivateException")
    /\ aexc.name = "ProfileIsPrivateException" =>
          \A i \in 1..Len(requested) :
              requested[i] \in LookupEndpoints /\ requested[i] \notin StreamEndpoints

C9_Witness ==
    /\ apc = "raised"
    /\ aexc.name = "ProfileIsPrivateException"
    /\ ~result.empty
    /\ result.is_private = "true"
    /\ requested = <<"userinfo", "usercontact">>

\* ------------------------------------------------------------ merge block
MaxMedia == 3
MaxDate == 2
MaxCount == 1

\* A dict built by _process_post / _process_reels, as far as the merge block
\* reads it: 'shortcode', 'post_date', and the object's identity, given by the
\* position at which it was appended.
Media(k, d, n) == [key |-> k, post_date |-> d, nth |-> n]

\* The lists the two media collectors can have left in media_list.
MediaLists ==
    UNION { { [i \in 1..n |-> Media(k[i], d[i], i)] :
                 k \in [1..n -> ItemIds], d \in [1..n -> 1..MaxDate] } :
            n \in 0..MaxMedia }

\* The triples asyncio.gather hands back for one media stream.
StreamTotals ==
    { [likes |-> l, comments |-> c, views |-> v] :
          l \in 0..MaxCount, c \in 0..MaxCount, v \in 0..MaxCount }

\* `key=lambda post: post.get('post_date', '')`.
sort_key(post) == post.post_date

Reverse(list) == [i \in 1..Len(list) |-> list[Len(list) + 1 - i]]

\* One step of a stable ascending sort: x goes behind every element whose key
\* is not greater than its own.
insort(list, x) ==
    LET n == Cardinality({ i \in 1..Len(list) : sort_key(list[i]) <= sort_key(x) })
    IN  SubSeq(list, 1, n) \o <<x>> \o SubSeq(list, n + 1, Len(list))

\* list.sort() without reverse: stable, ascending by key.
RECURSIVE list_sort(_)
list_sort(list) ==
    IF list = <<>> THEN <<>>
    ELSE insort(list_sort(SubSeq(list, 1, Len(list) - 1)), list[Len(list)])

\* sorted(iterable, key=..., reverse=True): the list is reversed, sorted
\* stably in ascending order and reversed again, so that equal keys keep
\* their original order.
sorted_reverse_after(list) == Reverse(list_sort(list))
sorted_reverse(list) == Reverse(list_sort(Reverse(list)))

\* The block is entered when gather has returned: media_list holds what the
\* collectors appended and the two triples are unpacked.
InitMerge ==
    /\ \E n \in 1..MaxKeys : RotIdle(n)
    /\ PageIdle
    /\ AggIdle
    /\ CacheIdle
    /\ CommentsIdle
    /\ mpc = "gathered"
    /\ media_list \in MediaLists
    /\ posts_totals \in StreamTotals
    /\ reels_totals \in StreamTotals
    /\ report_data = NoData

MergeFrame == UNCHANGED <<rotVars, pageVars, aggVars, cacheVars, commentVars>>

\* `media_list = sorted(media_list, key=..., reverse=True)`.
sort_media ==
    /\ mpc = "gathered"
    /\ media_list' = sorted_reverse(media_list)
    /\ mpc' = "sorted"
    /\ UNCHANGED <<posts_totals, reels_totals, report_data>>
    /\ MergeFrame

\* The 'data' entries of the returned dict that come from the media streams.
build_report ==
    /\ mpc = "sorted"
    /\ report_data' =
           [posts |-> media_list,
            posts_count |-> Len(media_list),
            likes_count |-> posts_totals.likes + reels_totals.likes,
            comments_count |-> posts_totals.comments + reels_totals.comments,
            views_count |-> posts_totals.views + reels_totals.views]
    /\ mpc' = "merged"
    /\ UNCHANGED <<media_list, posts_totals, reels_totals>>
    /\ MergeFrame

NextMerge ==
    \/ sort_media
    \/ build_report

SpecMerge == InitMerge /\ [][NextMerge]_vars

\* -------------------------------------------------- claims on SpecMerge
IsPermutation(a, b) ==
    /\ Len(a) = Len(b)
    /\ \A x \in { a[i] : i \in 1..Len(a) } \cup { b[i] : i \in 1..Len(b) } :
          Cardinality({ i \in 1..Len(a) : a[i] = x })
              = Cardinality({ i \in 1..Len(b) : b[i] = x })

\* C19 - Merge: the sorted list is a permutation of the items the two streams
\* appended, in descending post_date order with equal dates kept in insertion
\* order; the report's posts list is that list, posts_count is its length, and
\* likes_count, comments_count and views_count are each the posts-stream total
\* plus the reels-stream total.
C19_Merge ==
    /\ [][(mpc = "gathered" /\ mpc' = "sorted") =>
             /\ IsPermutation(media_list', media_list)
             /\ \A i, j \in 1..Len(media_list') :
                   i < j =>
                     /\ media_list'[i].post_date >= media_list'[j].post_date
                     /\ media_list'[i].post_date = media_list'[j].post_date =>
                           media_list'[i].nth < media_list'[j].nth]_vars
    /\ [](mpc = "merged" =>
             /\ report_data.posts = media_list
             /\ report_data.posts_count = Len(report_data.posts)
             /\ report_data.likes_count = posts_totals.likes + reels_totals.likes
             /\ report_data.comments_count = posts_totals.comments + reels_totals.comments
             /\ report_data.views_count = posts_totals.views + reels_totals.views)

C19_Witness ==
    /\ mpc = "merged"
    /\ report_data.posts_count = MaxMedia
    /\ report_data.posts[1].post_date = report_data.posts[2].post_date
    /\ report_data.posts[1].nth < report_data.posts[2].nth
    /\ report_data.posts[1].key # report_data.posts[2].key
    /\ report_data.posts[2].post_date > report_data.posts[3].post_date
    /\ report_data.posts[3].nth = 1
    /\ posts_totals.likes > 0
    /\ reels_totals.likes > 0
    /\ report_data.likes_count = posts_totals.likes + reels_totals.likes

\* --------------------------------------------------------- @cached(cache)
MaxCacheCalls == 3
MaxTicks == 3

\* cache = TTLCache(maxsize=100, ttl=3600)
ttl == 3600

\* The timer is observed in steps of half a ttl.
TickStep == ttl \div 2

\* Cached coroutine functions that are called with hashable arguments, each
\* with the arguments of the call.
CachedOps == {"get_analysis_by_single_account", "user_tagget_count",
              "user_highlights_count"}
call_args(op) == IF op = "get_analysis_by_single_account" THEN <<"alice">> ELSE <<"123">>

\* cachetools.keys.hashkey(*args): the key is made of the arguments alone;
\* the function that is called is not part of it.
hashkey(args) == args

\* TTLCache.__getitem__: the entries stored under k that have not expired.
cache_get(k) == { e \in cache : e.key = k /\ now < e.expires }

\* TTLCache.expire: the entries that survive a store at the current time.
cache_live == { e \in cache : now < e.expires }

\* TTLCache.__setitem__.
cache_set(k, v) ==
    { e \in cache_live : e.key # k } \cup {[key |-> k, coro |-> v, expires |-> now + ttl]}

InitCache ==
    /\ \E n \in 1..MaxKeys : RotIdle(n)
    /\ PageIdle
    /\ AggIdle
    /\ MergeIdle
    /\ CommentsIdle
    /\ cache = {}
    /\ now = 0
    /\ coros = <<>>
    /\ ccalls = <<>>

CacheFrame == UNCHANGED <<rotVars, pageVars, aggVars, mergeVars, commentVars>>

\* The wrapper made by @cached(cache) around an `async def`: look the key up;
\* on a miss call the function, which only creates a coroutine object, store
\* that object and return it.
cached_call(op) ==
    LET k == hashkey(call_args(op))
        hit == cache_get(k)
    IN
    /\ Len(ccalls) < MaxCacheCalls
    /\ IF hit # {}
       THEN /\ ccalls' = Append(ccalls,
                            [op |-> op, key |-> k, at |-> now, hit |-> TRUE,
                             coro |-> (CHOOSE e \in hit : TRUE).coro,
                             outcome |-> "pending"])
            /\ UNCHANGED <<cache, coros>>
       ELSE /\ coros' = Append(coros, [op |-> op, state |-> "created"])
            /\ cache' = cache_set(k, Len(coros) + 1)
            /\ ccalls' = Append(ccalls,
                            [op |-> op, key |-> k, at |-> now, hit |-> FALSE,
                             coro |-> Len(coros) + 1, outcome |-> "pending"])
    /\ UNCHANGED now
    /\ CacheFrame

\* The caller awaits (or a task starts) the object the wrapper returned: a
\* coroutine object can be started once; awaiting it while it runs or after
\* it has finished raises RuntimeError.
await_coro(i) ==
    /\ i \in 1..Len(ccalls)
    /\ ccalls[i].outcome = "pending"
    /\ IF coros[ccalls[i].coro].state = "created"
       THEN /\ coros' = [coros EXCEPT ![ccalls[i].coro].state = "running"]
            /\ ccalls' = [ccalls EXCEPT ![i].outcome = "awaiting"]
       ELSE /\ ccalls' = [ccalls EXCEPT ![i].outcome = "RuntimeError"]
            /\ UNCHANGED coros
    /\ UNCHANGED <<cache, now>>
    /\ CacheFrame

\* The body of the function returns: its awaiter receives the value.
coro_return(c) ==
    /\ c \in 1..Len(coros)
    /\ coros[c].state = "running"
    /\ coros' = [coros EXCEPT ![c].state = "done"]
    /\ ccalls' = [i \in 1..Len(ccalls) |->
                    IF ccalls[i].coro = c /\ ccalls[i].outcome = "awaiting"
                    THEN [ccalls[i] EXCEPT !.outcome = "value"]
                    ELSE ccalls[i]]
    /\ UNCHANGED <<cache, now>>
    /\ CacheFrame

\* Time passes.
tick ==
    /\ now < MaxTicks * TickStep
    /\ now' = now + TickStep
    /\ UNCHANGED <<cache, coros, ccalls>>
    /\ CacheFrame

NextCache ==
    \/ \E op \in CachedOps : cached_call(op)
    \/ \E i \in 1..MaxCacheCalls : await_coro(i)
    \/ \E c \in 1..MaxCacheCalls : coro_return(c)
    \/ tick

SpecCache == InitCache /\ [][NextCache]_vars

\* -------------------------------------------------- claims on SpecCache
\* C15 - (as claimed) of two calls of one cached operation with the same key
\* less than a ttl apart, the later one reuses the computation of the earlier
\* one and obtains its value; a call finds an entry only if a call with that
\* key stored it less than a ttl before.
C15_CacheCorrectness ==
    /\ \A i, j \in 1..Len(ccalls) :
          (/\ i < j
           /\ ccalls[i].op = ccalls[j].op
           /\ ccalls[i].key = ccalls[j].key
           /\ ~ccalls[i].hit
           /\ ccalls[j].at < ccalls[i].at + ttl) =>
              /\ ccalls[j].coro = ccalls[i].coro
              /\ ccalls[j].outcome # "RuntimeError"
              /\ ccalls[i].outcome # "RuntimeError"
    /\ \A j \in 1..Len(ccalls) :
          ccalls[j].hit =>
              \E i \in 1..(j - 1) :
                  /\ ccalls[i].key = ccalls[j].key
                  /\ ~ccalls[i].hit
                  /\ ccalls[j].at < ccalls[i].at + ttl

\* C25 - (as claimed) a call of a cached function never receives what a
\* different cached function stored under the same arguments: the coroutine
\* every call is handed belongs to the function that was called, so a call of
\* user_highlights_count(uid) made after user_tagget_count(uid) computes and
\* returns its own count.
C25_CacheIsolation ==
    \A j \in 1..Len(ccalls) : coros[ccalls[j].coro].op = ccalls[j].op

\* ---------------------------------------------------------- post_comments
MaxComments == 2
MaxChildren == 2

\* Usernames upstream can put in a comment's 'user'.
Usernames == ItemIds

\* A top-level comment with its 'preview_child_comments', each child given by
\* its author.
ChildLists == UNION { [1..n -> Usernames] : n \in 0..MaxChildren }
Comments == { [user |-> u, preview_child_comments |-> ch] :
                  u \in Usernames, ch \in ChildLists }
CommentPages == UNION { [1..n -> Comments] : n \in 0..MaxComments }

\* Bodies of the postcomments endpoint: data.comments and data.count.
CommentBodies ==
    { [parse |-> "mapping", comments |-> cs, count |-> n] :
          cs \in CommentPages, n \in 0..MaxComments }
    \cup { [parse |-> p, comments |-> <<>>, count |-> 0] : p \in {"falsy", "malformed"} }

CommentReplies ==
    { [net |-> "ok", status |-> 200, body |-> b] : b \in CommentBodies }
    \cup { [net |-> "ok", status |-> st, body |-> b] :
              st \in StatusCodes \ {200}, b \in PlainBodies }
    \cup { [net |-> n, status |-> 0, body |-> EmptyBody] : n \in NetFailures }

\* The dict _process_comment builds, as far as the dedup reads it: 'username',
\* and the place in the walk of the comment it was built from.
comment_item(u, at) == [username |-> u, at |-> at]

\* `seen_users.add(user_name)`.
seen_add_forgotten(seen, u) == seen
seen_add(seen, u) == seen \cup {u}

\* The inner loop over comment.get('preview_child_comments', []): w is the
\* state of the walk, [result, seen_users, at].
RECURSIVE walk_children(_, _)
walk_children(w, children) ==
    IF children = <<>> THEN w
    ELSE walk_children(
             IF Head(children) \notin w.seen_users
             THEN [result |-> Append(w.result, comment_item(Head(children), w.at)),
                   seen_users |-> seen_add(w.seen_users, Head(children)),
                   at |-> w.at + 1]
             ELSE [w EXCEPT !.at = w.at + 1],
             Tail(children))

\* The outer loop `for comment in comments`.
RECURSIVE walk_comments(_, _)
walk_comments(w, comments) ==
    IF comments = <<>> THEN w
    ELSE walk_comments(
             walk_children(
                 IF Head(comments).user \notin w.seen_users
                 THEN [result |-> Append(w.result, comment_item(Head(comments).user, w.at)),
                       seen_users |-> seen_add(w.seen_users, Head(comments).user),
                       at |-> w.at + 1]
                 ELSE [w EXCEPT !.at = w.at + 1],
                 Head(comments).preview_child_comments),
             Tail(comments))

\* post_comments for one answer of the network.
post_comments(r) ==
    LET a == api_call(r) IN
    IF a.exc # "none"
    THEN [exc |-> Raised(a.exc, "api_call"), ret |-> ReturnedNone]
    ELSE IF a.ret.none \/ a.ret.status # 200
    THEN [exc |-> NoExc, ret |-> Pair(<<>>, 0)]
    ELSE LET j == safe_json(a.ret) IN
         IF j.exc # "none"
         THEN [exc |-> Raised(j.exc, "safe_json"), ret |-> ReturnedNone]
         ELSE IF ~j.ret.truthy
         THEN [exc |-> NoExc, ret |-> ReturnedNone]
         ELSE [exc |-> NoExc,
               ret |-> Pair(walk_comments([result |-> <<>>, seen_users |-> {}, at |-> 1],
                                          j.ret.data.comments).result,
                            j.ret.data.count)]

InitComments ==
    /\ RotIdle(2)
    /\ PageIdle
    /\ AggIdle
    /\ MergeIdle
    /\ CacheIdle
    /\ comments_pc = "start"
    /\ comments_reply = NoReply
    /\ comments_return = ReturnedNone
    /\ comments_exc = NoExc

CommentsFrame ==
    /\ UNCHANGED <<INSTAGRAM_API_KEYS_LOCK, startup_keys, pc, key, ticket, handed,
                   in_flight, reply, response, json_data, exc, calls>>
    /\ UNCHANGED <<pageVars, aggVars, mergeVars, cacheVars>>

\* `await post_comments(shortcode)`.
call_post_comments ==
    /\ comments_pc = "start"
    /\ INSTAGRAM_API_KEYS' = rotate(INSTAGRAM_API_KEYS)
    /\ \E r \in CommentReplies :
         /\ comments_reply' = r
         /\ comments_return' = post_comments(r).ret
         /\ comments_exc' = post_comments(r).exc
         /\ comments_pc' = IF post_comments(r).exc = NoExc THEN "returned" ELSE "raised"
    /\ CommentsFrame

\* `post_comment, comments_count = await post_comments(shortcode)` in
\* _process_post and _process_reels: unpacking None raises TypeError.
unpack_comments ==
    /\ comments_pc = "returned"
    /\ IF comments_return.is_pair
       THEN /\ comments_pc' = "unpacked"
            /\ UNCHANGED comments_exc
       ELSE /\ comments_pc' = "raised"
            /\ comments_exc' = Raised("TypeError", "_process_post")
    /\ UNCHANGED <<INSTAGRAM_API_KEYS, comments_reply, comments_return>>
    /\ CommentsFrame

NextComments ==
    \/ call_post_comments
    \/ unpack_comments

SpecComments == InitComments /\ [][NextComments]_vars

\* ----------------------------------------------- claims on SpecComments
\* No data could be obtained from the answer: no response, a status other
\* than 200, or a body that is empty or cannot be decoded.
NoCommentData(r) ==
    \/ r.net # "ok"
    \/ r.status # 200
    \/ r.body.parse # "mapping"

\* C21 - (as claimed) post_comments returns a pair on every path and raises
\* nothing, the pair being ([], 0) when no data could be obtained, so that the
\* caller's unpacking never fails.
C21_AlwaysAPair ==
    comments_pc \in {"returned", "unpacked", "raised"} =>
        /\ comments_exc = NoExc
        /\ comments_return.is_pair
        /\ NoCommentData(comments_reply) => comments_return = Pair(<<>>, 0)

\* The usernames of a page in walk order: every comment, followed by its
\* preview replies.
RECURSIVE FlatWalk(_)
FlatWalk(comments) ==
    IF comments = <<>> THEN <<>>
    ELSE <<Head(comments).user>> \o Head(comments).preview_child_comments
             \o FlatWalk(Tail(comments))

\* C22 - Comments dedup: the items post_comments returns hold every username
\* of the walk once, no two items share a username, and the item of a user
\* is built from that user's first comment in walk order, top-level or reply.
C22_CommentsDedup ==
    (comments_pc \in {"returned", "unpacked"} /\ comments_return.is_pair
       /\ ~NoCommentData(comments_reply)) =>
        LET items == comments_return.items
            flat == FlatWalk(comments_reply.body.comments)
        IN  /\ \A i, j \in 1..Len(items) :
                  i < j => /\ items[i].username # items[j].username
                           /\ items[i].at < items[j].at
            /\ { items[i].username : i \in 1..Len(items) }
                   = { flat[n] : n \in 1..Len(flat) }
            /\ \A i \in 1..Len(items) :
                  /\ items[i].at \in 1..Len(flat)
                  /\ flat[items[i].at] = items[i].username
                  /\ \A n \in 1..(items[i].at - 1) : flat[n] # items[i].username

C22_Witness ==
    /\ comments_pc = "unpacked"
    /\ ~NoCommentData(comments_reply)
    /\ Len(comments_reply.body.comments) = 2
    /\ Len(comments_reply.body.comments[1].preview_child_comments) = 1
    /\ Len(comments_reply.body.comments[2].preview_child_comments) = 1
    /\ Len(FlatWalk(comments_reply.body.comments)) = 4
    /\ comments_reply.body.comments[1].user # comments_reply.body.comments[2].user
    /\ comments_reply.body.comments[1].preview_child_comments[1]
           = comments_reply.body.comments[2].user
    /\ comments_reply.body.comments[2].preview_child_comments[1]
           = comments_reply.body.comments[1].user
    /\ Len(comments_return.items) = 2
    /\ comments_return.items[2].at = 2

====
